---- MODULE Spec2Model ----
(***************************************************************************)
(* A model of automation_agent.browser_controller.BrowserController: the   *)
(* process lifecycle (launch_browser, terminate_browser), the readiness    *)
(* poller (_wait_until_ready) and the action dispatcher (execute_action,   *)
(* perform_actions).                                                       *)
(*                                                                         *)
(* Time is counted in ticks of 0.5 time-units, the length of the poller's  *)
(* time.sleep(0.5).  Only the blocking operations let time pass: an HTTP   *)
(* request in flight, time.sleep and Popen.wait.  The code reads the clock *)
(* only to form differences (deadline = time.time() + timeout), so the     *)
(* clock is set back to 0 whenever a call starts while no other call is in *)
(* progress.                                                               *)
(***************************************************************************)
EXTENDS Integers, Sequences, FiniteSets, TLC

VARIABLES
    procs,            \* the OS processes the process factory has spawned
    process,          \* self._process: 0 is None, else an index of procs
    startup_timeout,  \* self.startup_timeout, in ticks
    clock,            \* time.time(), in ticks
    pc,               \* per caller: its position in the code
    op,               \* per caller: the method of its current or last call
    outcome,          \* per caller: "none" while running, "ok", or the exception
    popen,            \* launch_browser's local popen
    deadline,         \* _wait_until_ready's local deadline
    last_error,       \* _wait_until_ready's local last_error: 0 is None, else the attempt number
    cause,            \* the __cause__ of the raised TimeoutError (0 is None)
    timer,            \* the clock when the caller's blocking operation began
    handle,           \* the handle Popen.wait is blocked on (0: none)
    waited,           \* how long the last Popen.wait of this call blocked
    reqs,             \* per caller: the HTTP requests its current or last call issued
    spawned,          \* per caller: the processes its current or last call spawned
    signalled,        \* per caller: the processes its current or last call sent SIGTERM
    entry,            \* per caller: self._process when the call began, and whether it ran
    prev,             \* per caller: the method of the call before the current one
    listed,           \* the processes that were spawned before the latest successful listTabs
    actions,          \* perform_actions' argument
    idx,              \* perform_actions' loop position (1-based)
    results,          \* perform_actions' local results / execute_action's return value
    options,          \* per caller: launch_browser's keyword arguments
    factory_calls,    \* per caller: the argument lists its current or last call gave the process factory
    allowlist,        \* NativeBridge.allowlist: the commands registered, by name
    run_call,         \* NativeBridge.run's latest call: its arguments, the allowlist before it, its outcome
    executed,         \* the argument lists the latest NativeBridge.run gave subprocess.run
    stream,           \* stream_execution's generator: its dry_run argument, and how many results its consumer has asked for
    cli               \* cli.main's position and its parsed arguments

vars == <<procs, process, startup_timeout, clock, pc, op, outcome, popen, deadline,
          last_error, cause, timer, handle, waited, reqs, spawned, signalled, entry,
          prev, listed, actions, idx, results, options, factory_calls, allowlist,
          run_call, executed, stream, cli>>

dispatchVars == <<actions, idx, results>>

restVars == <<allowlist, run_call, executed, stream, cli>>

extVars == <<options, restVars>>

----------------------------------------------------------------------------
(* Bounds of the model *)

\* the number of processes the factory may spawn in one run
MaxProcs == 2

\* the largest configured startup_timeout, in ticks
MaxTimeout == 3

\* the longest action list given to perform_actions
MaxActions == 3

\* the longest list of extra arguments given to NativeBridge.run
MaxExtra == 2

(* Program constants, in ticks of 0.5 time-units *)

\* time.sleep(0.5)
SleepInterval == 1

\* urllib.request.urlopen(req, timeout=5)
RequestTimeout == 10

\* self._process.wait(timeout=5)
GracePeriod == 10

Threads == {1, 2}

\* the callers of the sequential specification
SeqThreads == {1}

----------------------------------------------------------------------------
(* The DevTools HTTP endpoint *)

\* str values are sequences of one-character strings
Space == " "
Slash == "/"

\* urllib.parse.urlencode (quote_plus) of one character: a space becomes "+",
\* a reserved character its percent-encoding, an unreserved one itself
QuoteChar(c) ==
    CASE c = Space -> <<"+">>
      [] c = Slash -> <<"%", "2", "F">>
      [] OTHER -> <<c>>

RECURSIVE quote_plus(_)
\* urllib.parse.urlencode({"url": url}) without the "url=" prefix
quote_plus(str) ==
    IF str = <<>> THEN <<>> ELSE QuoteChar(Head(str)) \o quote_plus(Tail(str))

\* line 116: self._request("/json/list")
list_tabs == [endpoint |-> "/json/list", arg |-> <<>>]

\* line 120-121: self._request(f"/json/new?{query}")
open_tab(url) == [endpoint |-> "/json/new?url=", arg |-> quote_plus(url)]

\* a bug: close_tab asks for the activate endpoint
close_tab_activates(target_id) == [endpoint |-> "/json/activate/", arg |-> target_id]

\* line 125: self._request(f"/json/close/{target_id}")
close_tab(target_id) == [endpoint |-> "/json/close/", arg |-> target_id]

\* line 129: self._request(f"/json/activate/{target_id}")
activate_tab(target_id) == [endpoint |-> "/json/activate/", arg |-> target_id]

\* a request on the wire, not yet answered
Request(path, now) ==
    [path |-> path, at |-> now, end |-> now, done |-> FALSE, ok |-> FALSE, body |-> ""]

\* the request once the endpoint has answered (ok, with a body) or failed
Answered(req, now, ok, body) ==
    [req EXCEPT !.end = now, !.done = TRUE, !.ok = ok, !.body = body]

\* json.loads(payload.decode("utf-8")) of a body that is JSON
Decode(body) == [json |-> body]

----------------------------------------------------------------------------
(* _ProcessHandle *)

\* _ProcessHandle.is_running: popen.poll() is None
is_running(p) == procs[p].alive

\* BrowserController.is_browser_running
is_browser_running == process # 0 /\ is_running(process)

\* a bug: the signal is sent without polling first
HandleTerminateUnchecked(p) == [procs EXCEPT ![p].signals = @ + 1]

\* _ProcessHandle.terminate: signals the process unless it has exited
HandleTerminate(p) ==
    IF is_running(p)
    THEN [procs EXCEPT ![p].signals = @ + 1]
    ELSE procs

\* the processes of procs that are alive
Alive == {p \in 1..Len(procs) : procs[p].alive}

AllIdle(t) == \A u \in Threads \ {t} : pc[u] = "idle"

\* the clock at the start of a call
CallClock(t) == IF AllIdle(t) THEN 0 ELSE clock

\* what every call resets when it begins
BeginCall(t, name) ==
    /\ op' = [op EXCEPT ![t] = name]
    /\ clock' = CallClock(t)
    /\ reqs' = [reqs EXCEPT ![t] = <<>>]
    /\ spawned' = [spawned EXCEPT ![t] = <<>>]
    /\ signalled' = [signalled EXCEPT ![t] = <<>>]
    /\ entry' = [entry EXCEPT ![t] =
                    [handle |-> process,
                     running |-> process # 0 /\ procs[process].alive]]
    /\ prev' = [prev EXCEPT ![t] = op[t]]
    /\ waited' = [waited EXCEPT ![t] = 0]
    /\ cause' = [cause EXCEPT ![t] = 0]
    /\ last_error' = [last_error EXCEPT ![t] = 0]
    /\ deadline' = [deadline EXCEPT ![t] = 0]
    /\ timer' = [timer EXCEPT ![t] = 0]
    /\ handle' = [handle EXCEPT ![t] = 0]
    /\ popen' = [popen EXCEPT ![t] = 0]
    /\ factory_calls' = [factory_calls EXCEPT ![t] = <<>>]

\* line 58: the default chrome_path
chrome_path == "google-chrome"

\* line 59: the default remote_debugging_port
remote_debugging_port == 9222

\* line 79-81: the defaults of launch_browser's keyword arguments; an optional
\* argument is <<>> for None and <<v>> for the value v
DefaultOptions == [headless |-> TRUE, user_data_dir |-> <<>>, additional_args |-> <<>>]

\* line 94: the truth value of an Optional[str]: None and "" are false
TruthyStr(opt) == opt # <<>> /\ opt[1] # ""

\* line 96: the truth value of an Optional[list]: None and [] are false
TruthyList(opt) == opt # <<>> /\ opt[1] # <<>>

\* a bug: the headless flag is appended after the user data dir
LaunchArgsHeadlessLate(o) ==
    <<chrome_path,
      "--remote-debugging-port=" \o ToString(remote_debugging_port),
      "--remote-allow-origins=*">>
    \o (IF TruthyStr(o.user_data_dir)
        THEN <<"--user-data-dir=" \o o.user_data_dir[1]>> ELSE <<>>)
    \o (IF o.headless THEN <<"--headless=new">> ELSE <<>>)
    \o (IF TruthyList(o.additional_args) THEN o.additional_args[1] ELSE <<>>)

\* line 87-97: the argument list launch_browser builds
LaunchArgs(o) ==
    <<chrome_path,
      "--remote-debugging-port=" \o ToString(remote_debugging_port),
      "--remote-allow-origins=*">>
    \o (IF o.headless THEN <<"--headless=new">> ELSE <<>>)
    \o (IF TruthyStr(o.user_data_dir)
        THEN <<"--user-data-dir=" \o o.user_data_dir[1]>> ELSE <<>>)
    \o (IF TruthyList(o.additional_args) THEN o.additional_args[1] ELSE <<>>)

\* cli.main has not been called
NoCli ==
    [pc |-> "off", command |-> "", no_launch |-> FALSE, headless |-> FALSE,
     dry_run |-> FALSE, error |-> ""]

\* NativeBridge.run has not been called
NoRun ==
    [name |-> "", extra_args |-> <<>>, before |-> <<>>, after |-> <<>>,
     outcome |-> "none"]


Init ==
    /\ procs = <<>>
    /\ process = 0
    /\ startup_timeout \in 0..MaxTimeout
    /\ clock = 0
    /\ pc = [t \in Threads |-> "idle"]
    /\ op = [t \in Threads |-> "none"]
    /\ outcome = [t \in Threads |-> "none"]
    /\ popen = [t \in Threads |-> 0]
    /\ deadline = [t \in Threads |-> 0]
    /\ last_error = [t \in Threads |-> 0]
    /\ cause = [t \in Threads |-> 0]
    /\ timer = [t \in Threads |-> 0]
    /\ handle = [t \in Threads |-> 0]
    /\ waited = [t \in Threads |-> 0]
    /\ reqs = [t \in Threads |-> <<>>]
    /\ spawned = [t \in Threads |-> <<>>]
    /\ signalled = [t \in Threads |-> <<>>]
    /\ entry = [t \in Threads |-> [handle |-> 0, running |-> FALSE]]
    /\ prev = [t \in Threads |-> "none"]
    /\ listed = {}
    /\ actions = [t \in Threads |-> <<>>]
    /\ idx = [t \in Threads |-> 1]
    /\ results = [t \in Threads |-> <<>>]
    /\ options = [t \in Threads |-> DefaultOptions]
    /\ factory_calls = [t \in Threads |-> <<>>]
    /\ allowlist = <<>>
    /\ run_call = NoRun
    /\ executed = <<>>
    /\ stream = [asked |-> 0, dry_run |-> FALSE]
    /\ cli = NoCli

----------------------------------------------------------------------------
(* launch_browser *)

\* a bug: the liveness test of line 84 inverted
LaunchGuardInverted == process # 0 /\ ~is_running(process)

\* line 84: self._process and self._process.is_running()
LaunchGuard == process # 0 /\ is_running(process)

\* line 84-85: the process is running, return
LaunchNoop(t) ==
    /\ pc[t] = "idle"
    /\ LaunchGuard
    /\ BeginCall(t, "launch")
    /\ outcome' = [outcome EXCEPT ![t] = "ok"]
    /\ UNCHANGED <<procs, process, startup_timeout, pc, listed, dispatchVars,
                   extVars>>

\* line 76-84: launch_browser called with the keyword arguments o; no running
\* process, go on to build the arguments and spawn
LaunchCall(t, o) ==
    /\ pc[t] = "idle"
    /\ ~LaunchGuard
    /\ Len(procs) < MaxProcs
    /\ BeginCall(t, "launch")
    /\ options' = [options EXCEPT ![t] = o]
    /\ outcome' = [outcome EXCEPT ![t] = "none"]
    /\ pc' = [pc EXCEPT ![t] = "spawn"]
    /\ UNCHANGED <<procs, process, startup_timeout, listed, dispatchVars,
                   restVars>>

\* launch_browser() called with the defaults
LaunchBegin(t) == LaunchCall(t, DefaultOptions)

\* a bug: a failed spawn is tried once more before the error is raised
SpawnRetry(t) ==
    /\ pc[t] = "spawn"
    /\ factory_calls' = [factory_calls EXCEPT ![t] = Append(@, LaunchArgs(options[t]))]
    /\ \E started \in BOOLEAN :
        IF started
        THEN /\ procs' = Append(procs, [alive |-> TRUE, signals |-> 0])
             /\ popen' = [popen EXCEPT ![t] = Len(procs) + 1]
             /\ spawned' = [spawned EXCEPT ![t] = Append(@, Len(procs) + 1)]
             /\ pc' = [pc EXCEPT ![t] = "assign"]
             /\ UNCHANGED outcome
        ELSE /\ outcome' = [outcome EXCEPT ![t] =
                               IF factory_calls[t] = <<>> THEN @ ELSE "OSError"]
             /\ pc' = [pc EXCEPT ![t] =
                          IF factory_calls[t] = <<>> THEN @ ELSE "idle"]
             /\ UNCHANGED <<procs, popen, spawned>>
    /\ UNCHANGED <<process, startup_timeout, clock, op, deadline, last_error, cause,
                   timer, handle, waited, reqs, signalled, entry, prev, listed, dispatchVars,
                   extVars>>

\* line 99: self._process_factory(args) returns a new process or raises
Spawn(t) ==
    /\ pc[t] = "spawn"
    /\ factory_calls' = [factory_calls EXCEPT ![t] = Append(@, LaunchArgs(options[t]))]
    /\ \E started \in BOOLEAN :
        IF started
        THEN /\ procs' = Append(procs, [alive |-> TRUE, signals |-> 0])
             /\ popen' = [popen EXCEPT ![t] = Len(procs) + 1]
             /\ spawned' = [spawned EXCEPT ![t] = Append(@, Len(procs) + 1)]
             /\ pc' = [pc EXCEPT ![t] = "assign"]
             /\ UNCHANGED outcome
        ELSE /\ outcome' = [outcome EXCEPT ![t] = "OSError"]
             /\ pc' = [pc EXCEPT ![t] = "idle"]
             /\ UNCHANGED <<procs, popen, spawned>>
    /\ UNCHANGED <<process, startup_timeout, clock, op, deadline, last_error, cause,
                   timer, handle, waited, reqs, signalled, entry, prev, listed, dispatchVars,
                   extVars>>

\* a bug: the new handle is not stored
AssignDropped(t) ==
    /\ pc[t] = "assign"
    /\ pc' = [pc EXCEPT ![t] = "wait_start"]
    /\ UNCHANGED <<procs, process, startup_timeout, clock, op, outcome, popen,
                   deadline, last_error, cause, timer, handle, waited, reqs, spawned,
                   signalled, entry, prev, listed, dispatchVars,
                   factory_calls, extVars>>

\* line 100: self._process = _ProcessHandle(popen=popen)
Assign(t) ==
    /\ pc[t] = "assign"
    /\ process' = popen[t]
    /\ pc' = [pc EXCEPT ![t] = "wait_start"]
    /\ UNCHANGED <<procs, startup_timeout, clock, op, outcome, popen, deadline,
                   last_error, cause, timer, handle, waited, reqs, spawned, signalled,
                   entry, prev, listed, dispatchVars,
                   factory_calls, extVars>>

----------------------------------------------------------------------------
(* _wait_until_ready *)

\* line 171-172
WaitStart(t) ==
    /\ pc[t] = "wait_start"
    /\ deadline' = [deadline EXCEPT ![t] = clock + startup_timeout]
    /\ last_error' = [last_error EXCEPT ![t] = 0]
    /\ pc' = [pc EXCEPT ![t] = "loop"]
    /\ UNCHANGED <<procs, process, startup_timeout, clock, op, outcome, popen, cause,
                   timer, handle, waited, reqs, spawned, signalled, entry, prev, listed,
                   dispatchVars,
                   factory_calls, extVars>>

\* a bug: the loop still runs at the deadline
LoopConditionInclusive(t) == clock <= deadline[t]

\* line 173: the loop condition
LoopCondition(t) == clock < deadline[t]

\* line 173-175 and 180: start a listTabs attempt, or raise TimeoutError from last_error
LoopCheck(t) ==
    /\ pc[t] = "loop"
    /\ IF LoopCondition(t)
       THEN /\ reqs' = [reqs EXCEPT ![t] =
                           Append(@, Request(list_tabs, clock))]
            /\ timer' = [timer EXCEPT ![t] = clock]
            /\ pc' = [pc EXCEPT ![t] = "request"]
            /\ UNCHANGED <<outcome, cause>>
       ELSE /\ outcome' = [outcome EXCEPT ![t] = "TimeoutError"]
            /\ cause' = [cause EXCEPT ![t] = last_error[t]]
            /\ pc' = [pc EXCEPT ![t] = "idle"]
            /\ UNCHANGED <<reqs, timer>>
    /\ UNCHANGED <<procs, process, startup_timeout, clock, op, popen, deadline,
                   last_error, handle, waited, spawned, signalled, entry, prev, listed,
                   dispatchVars,
                   factory_calls, extVars>>

\* a bug: the return of line 176 is missing
AfterAttemptNoReturn(ok) == "sleep"

\* line 174-179: where the poller goes after an attempt: a success returns
\* (line 176), a failure sleeps and loops (line 177-179)
AfterAttempt(ok) == IF ok THEN "idle" ELSE "sleep"

\* line 175-179: the listTabs request answers or fails (HTTPError, or a body that
\* is not JSON); a failure is remembered and the fixed sleep begins
Response(t) ==
    /\ pc[t] = "request"
    /\ \E ok \in BOOLEAN :
        /\ reqs' = [reqs EXCEPT ![t][Len(reqs[t])] =
                        Answered(@, clock, ok, IF ok THEN "tabs" ELSE "")]
        /\ listed' = IF ok THEN 1..Len(procs) ELSE listed
        /\ last_error' = [last_error EXCEPT ![t] = IF ok THEN @ ELSE Len(reqs[t])]
        /\ pc' = [pc EXCEPT ![t] = AfterAttempt(ok)]
        /\ outcome' = [outcome EXCEPT ![t] =
                          IF AfterAttempt(ok) = "idle" THEN "ok" ELSE @]
        /\ timer' = [timer EXCEPT ![t] = clock]
    /\ UNCHANGED <<procs, process, startup_timeout, clock, op, popen, deadline,
                   cause, handle, waited, spawned, signalled, entry, prev,
                   dispatchVars,
                   factory_calls, extVars>>

\* line 179: time.sleep(0.5) is over
SleepDone(t) ==
    /\ pc[t] = "sleep"
    /\ clock - timer[t] >= SleepInterval
    /\ pc' = [pc EXCEPT ![t] = "loop"]
    /\ UNCHANGED <<procs, process, startup_timeout, clock, op, outcome, popen,
                   deadline, last_error, cause, timer, handle, waited, reqs, spawned,
                   signalled, entry, prev, listed, dispatchVars,
                   factory_calls, extVars>>

----------------------------------------------------------------------------
(* terminate_browser *)

\* line 107: no handle is held, nothing to do
TerminateNoop(t) ==
    /\ pc[t] = "idle"
    /\ process = 0
    /\ BeginCall(t, "terminate")
    /\ outcome' = [outcome EXCEPT ![t] = "ok"]
    /\ UNCHANGED <<procs, process, startup_timeout, pc, listed, dispatchVars,
                   extVars>>

\* line 107: a handle is held
TerminateBegin(t) ==
    /\ pc[t] = "idle"
    /\ process # 0
    /\ BeginCall(t, "terminate")
    /\ outcome' = [outcome EXCEPT ![t] = "none"]
    /\ pc' = [pc EXCEPT ![t] = "signal"]
    /\ UNCHANGED <<procs, process, startup_timeout, listed, dispatchVars,
                   extVars>>

\* line 108: self._process.terminate()
Signal(t) ==
    /\ pc[t] = "signal"
    /\ IF process = 0
       THEN /\ outcome' = [outcome EXCEPT ![t] = "AttributeError"]
            /\ pc' = [pc EXCEPT ![t] = "idle"]
            /\ UNCHANGED <<procs, signalled>>
       ELSE /\ procs' = HandleTerminate(process)
            /\ signalled' = [signalled EXCEPT ![t] =
                                IF procs'[process].signals > procs[process].signals
                                THEN Append(@, [proc |-> process,
                                                alive |-> procs[process].alive])
                                ELSE @]
            /\ pc' = [pc EXCEPT ![t] = "wait_begin"]
            /\ UNCHANGED outcome
    /\ UNCHANGED <<process, startup_timeout, clock, op, popen, deadline, last_error,
                   cause, timer, handle, waited, reqs, spawned, entry, prev, listed,
                   dispatchVars,
                   factory_calls, extVars>>

\* line 109: self._process.wait(timeout=5) begins
WaitBegin(t) ==
    /\ pc[t] = "wait_begin"
    /\ IF process = 0
       THEN /\ outcome' = [outcome EXCEPT ![t] = "AttributeError"]
            /\ pc' = [pc EXCEPT ![t] = "idle"]
            /\ UNCHANGED <<handle, timer>>
       ELSE /\ handle' = [handle EXCEPT ![t] = process]
            /\ timer' = [timer EXCEPT ![t] = clock]
            /\ pc' = [pc EXCEPT ![t] = "wait"]
            /\ UNCHANGED outcome
    /\ UNCHANGED <<procs, process, startup_timeout, clock, op, popen, deadline,
                   last_error, cause, waited, reqs, spawned, signalled, entry, prev, listed,
                   dispatchVars,
                   factory_calls, extVars>>

\* a bug (or another design): the process is killed when the timeout expires
WaitExpiredKill(p) == [procs EXCEPT ![p].alive = FALSE]

\* what _ProcessHandle.wait does to the processes when the timeout expires:
\* subprocess.TimeoutExpired is caught and None returned, line 34-35
WaitExpired(p) == procs

\* line 109, 31-35: Popen.wait returns because the process has exited, or the
\* timeout expires
WaitDone(t) ==
    /\ pc[t] = "wait"
    /\ \/ ~is_running(handle[t])
       \/ clock - timer[t] >= GracePeriod
    /\ procs' = IF is_running(handle[t]) THEN WaitExpired(handle[t]) ELSE procs
    /\ waited' = [waited EXCEPT ![t] = clock - timer[t]]
    /\ pc' = [pc EXCEPT ![t] = "clear"]
    /\ UNCHANGED <<process, startup_timeout, clock, op, outcome, popen, deadline,
                   last_error, cause, timer, handle, reqs, spawned, signalled, entry,
                   prev, listed, dispatchVars,
                   factory_calls, extVars>>

\* a bug: the handle is kept after terminate
ClearedHandleKept == process

\* line 110: the value self._process is set to, None
ClearedHandle == 0

\* line 110: self._process = None
Clear(t) ==
    /\ pc[t] = "clear"
    /\ process' = ClearedHandle
    /\ outcome' = [outcome EXCEPT ![t] = "ok"]
    /\ pc' = [pc EXCEPT ![t] = "idle"]
    /\ UNCHANGED <<procs, startup_timeout, clock, op, popen, deadline, last_error,
                   cause, timer, handle, waited, reqs, spawned, signalled, entry,
                   prev, listed, dispatchVars,
                   factory_calls, extVars>>

----------------------------------------------------------------------------
(* The environment *)

\* a spawned process exits, of its own accord or because of a signal
ProcExit ==
    /\ \E p \in Alive : procs' = [procs EXCEPT ![p].alive = FALSE]
    /\ UNCHANGED <<process, startup_timeout, clock, pc, op, outcome, popen, deadline,
                   last_error, cause, timer, handle, waited, reqs, spawned, signalled,
                   entry, prev, listed, dispatchVars,
                   factory_calls, extVars>>

\* whether caller t is in a blocking operation that can take one more tick
Blocking(t) ==
    \/ pc[t] = "request" /\ clock - timer[t] < RequestTimeout
    \/ pc[t] = "sleep" /\ clock - timer[t] < SleepInterval
    \/ pc[t] = "wait" /\ clock - timer[t] < GracePeriod /\ is_running(handle[t])

\* time passes while every caller in a call is blocked
Tick ==
    /\ \E t \in Threads : pc[t] # "idle"
    /\ \A t \in Threads : pc[t] = "idle" \/ Blocking(t)
    /\ clock' = clock + 1
    /\ UNCHANGED <<procs, process, startup_timeout, pc, op, outcome, popen, deadline,
                   last_error, cause, timer, handle, waited, reqs, spawned, signalled,
                   entry, prev, listed, dispatchVars,
                   factory_calls, extVars>>

----------------------------------------------------------------------------
(* The sequential specification: one caller, one call at a time *)

Step(t) ==
    \/ LaunchNoop(t)
    \/ LaunchBegin(t)
    \/ Spawn(t)
    \/ Assign(t)
    \/ WaitStart(t)
    \/ LoopCheck(t)
    \/ Response(t)
    \/ SleepDone(t)
    \/ TerminateNoop(t)
    \/ TerminateBegin(t)
    \/ Signal(t)
    \/ WaitBegin(t)
    \/ WaitDone(t)
    \/ Clear(t)

Next ==
    \/ \E t \in SeqThreads : Step(t)
    \/ ProcExit
    \/ Tick

Spec == Init /\ [][Next]_vars

----------------------------------------------------------------------------
(* execute_action and perform_actions *)

\* an action is a dict: a function whose domain holds the keys that are present;
\* a str value is a sequence of characters, the type tag a string
Has(action, key) == key \in DOMAIN action

\* a bug: "is None" tested in place of "not": the empty string passes
TruthyNotNone(action, key) == Has(action, key)

\* line 144, 149, 154: the negation of "not action.get(key)"
Truthy(action, key) == Has(action, key) /\ action[key] # <<>>

\* line 141: action.get("type") == tag
TypeIs(action, tag) == Has(action, "type") /\ action["type"] = tag

\* what execute_action does with an action before any answer arrives: it raises
\* ValueError, or it sends one request
Raise(exc) == [raise |-> exc, path |-> list_tabs]
Send(path) == [raise |-> "", path |-> path]

\* line 141-157
execute_action(action) ==
    IF TypeIs(action, "open_url")
    THEN IF ~Truthy(action, "url")
         THEN Raise("ValueError")
         ELSE Send(open_tab(action["url"]))
    ELSE IF TypeIs(action, "activate")
    THEN IF ~Truthy(action, "target_id")
         THEN Raise("ValueError")
         ELSE Send(activate_tab(action["target_id"]))
    ELSE IF TypeIs(action, "close")
    THEN IF ~Truthy(action, "target_id")
         THEN Raise("ValueError")
         ELSE Send(close_tab(action["target_id"]))
    ELSE Raise("ValueError")

\* the dicts given to execute_action: each key present or not, a str value
\* empty or not
Types == {"open_url", "activate", "close", "scroll"}
Urls == {<<>>, <<"a">>, <<"a", Slash, Space>>}
TargetIds == {<<>>, <<"t">>, <<"u">>}

\* the dict with the given optional values (<<>> absent, <<v>> present)
Dict(type, url, target_id) ==
    [key \in {k \in {"type", "url", "target_id"} :
                 \/ k = "type" /\ type # <<>>
                 \/ k = "url" /\ url # <<>>
                 \/ k = "target_id" /\ target_id # <<>>} |->
        CASE key = "type" -> type[1]
          [] key = "url" -> url[1]
          [] key = "target_id" -> target_id[1]]

Optional(S) == {<<>>} \cup {<<v>> : v \in S}

ActionDicts ==
    {Dict(ty, u, tg) : ty \in Optional(Types), u \in Optional(Urls),
                       tg \in Optional(TargetIds)}

\* the actions the lists given to perform_actions are made of
ListActions ==
    {Dict(<<"open_url">>, <<<<"a">>>>, <<>>),
     Dict(<<"activate">>, <<>>, <<<<"t">>>>),
     Dict(<<"close">>, <<>>, <<<<"t">>>>),
     Dict(<<"close">>, <<>>, <<<<>>>>),
     Dict(<<"scroll">>, <<>>, <<>>)}

ActionLists == UNION {[1..n -> ListActions] : n \in 0..MaxActions}

\* what the endpoint does with a request: it fails (HTTPError), or it answers
\* with a body, which is JSON or not
Answers ==
    {[ok |-> FALSE, body |-> "", json |-> FALSE],
     [ok |-> TRUE, body |-> "garbage", json |-> FALSE],
     [ok |-> TRUE, body |-> "b1", json |-> TRUE],
     [ok |-> TRUE, body |-> "b2", json |-> TRUE]}

\* the exception a request's answer makes open_tab, close_tab or activate_tab
\* raise ("" for none): line 50, and json.loads
AnswerError(ans) ==
    IF ~ans.ok THEN "HTTPError"
    ELSE IF ~ans.json THEN "JSONDecodeError"
    ELSE ""

\* what dispatch calls have no use for
lifecycleVars == <<procs, process, startup_timeout, listed>>

\* execute_action and perform_actions read and write no field of the
\* controller, so a call owes nothing to the calls before it: a run of the
\* dispatch specification makes one call on a fresh controller
Fresh(t) == pc[t] = "idle" /\ op[t] = "none"

\* the caller calls execute_action(action)
ExecuteCall(t) ==
    /\ Fresh(t)
    /\ \E action \in ActionDicts :
        /\ BeginCall(t, "execute")
        /\ actions' = [actions EXCEPT ![t] = <<action>>]
        /\ idx' = [idx EXCEPT ![t] = 1]
        /\ results' = [results EXCEPT ![t] = <<>>]
        /\ outcome' = [outcome EXCEPT ![t] = "none"]
        /\ pc' = [pc EXCEPT ![t] = "execute"]
    /\ UNCHANGED <<lifecycleVars, extVars>>

\* line 141-157: the action is refused with ValueError, or its request is sent
ExecuteStep(t) ==
    /\ pc[t] = "execute"
    /\ LET plan == execute_action(actions[t][1]) IN
        IF plan.raise # ""
        THEN /\ outcome' = [outcome EXCEPT ![t] = plan.raise]
             /\ pc' = [pc EXCEPT ![t] = "idle"]
             /\ UNCHANGED reqs
        ELSE /\ reqs' = [reqs EXCEPT ![t] = Append(@, Request(plan.path, clock))]
             /\ pc' = [pc EXCEPT ![t] = "execute_request"]
             /\ UNCHANGED outcome
    /\ UNCHANGED <<lifecycleVars, clock, op, popen, deadline, last_error, cause,
                   timer, handle, waited, spawned, signalled, entry, prev,
                   dispatchVars,
                   factory_calls, extVars>>

\* line 121-122, 125-126, 129-130: the request is answered, the body decoded
\* and returned
ExecuteResponse(t) ==
    /\ pc[t] = "execute_request"
    /\ \E ans \in Answers :
        /\ reqs' = [reqs EXCEPT ![t][Len(reqs[t])] =
                        Answered(@, clock, ans.ok, ans.body)]
        /\ IF AnswerError(ans) # ""
           THEN /\ outcome' = [outcome EXCEPT ![t] = AnswerError(ans)]
                /\ UNCHANGED results
           ELSE /\ outcome' = [outcome EXCEPT ![t] = "ok"]
                /\ results' = [results EXCEPT ![t] = <<Decode(ans.body)>>]
    /\ pc' = [pc EXCEPT ![t] = "idle"]
    /\ UNCHANGED <<lifecycleVars, clock, op, popen, deadline, last_error, cause,
                   timer, handle, waited, spawned, signalled, entry, prev, actions,
                   idx,
                   factory_calls, extVars>>

\* the caller calls perform_actions(list): line 160
PerformCall(t) ==
    /\ Fresh(t)
    /\ \E list \in ActionLists :
        /\ BeginCall(t, "perform")
        /\ actions' = [actions EXCEPT ![t] = list]
        /\ idx' = [idx EXCEPT ![t] = 1]
        /\ results' = [results EXCEPT ![t] = <<>>]
        /\ outcome' = [outcome EXCEPT ![t] = "none"]
        /\ pc' = [pc EXCEPT ![t] = "perform_loop"]
    /\ UNCHANGED <<lifecycleVars, extVars>>

\* line 161-163: the next action is given to execute_action, or the list is
\* over and results is returned
PerformLoop(t) ==
    /\ pc[t] = "perform_loop"
    /\ IF idx[t] > Len(actions[t])
       THEN /\ outcome' = [outcome EXCEPT ![t] = "ok"]
            /\ pc' = [pc EXCEPT ![t] = "idle"]
            /\ UNCHANGED reqs
       ELSE LET plan == execute_action(actions[t][idx[t]]) IN
            IF plan.raise # ""
            THEN /\ outcome' = [outcome EXCEPT ![t] = plan.raise]
                 /\ pc' = [pc EXCEPT ![t] = "idle"]
                 /\ UNCHANGED reqs
            ELSE /\ reqs' = [reqs EXCEPT ![t] = Append(@, Request(plan.path, clock))]
                 /\ pc' = [pc EXCEPT ![t] = "perform_request"]
                 /\ UNCHANGED outcome
    /\ UNCHANGED <<lifecycleVars, clock, op, popen, deadline, last_error, cause,
                   timer, handle, waited, spawned, signalled, entry, prev,
                   dispatchVars,
                   factory_calls, extVars>>

\* a bug: the result is put at the front of the list
AppendResultFront(list, result) == <<result>> \o list

\* line 162: results.append(...)
AppendResult(list, result) == Append(list, result)

\* a bug: the exception of a failed request is swallowed and the loop goes on
PerformResponseSwallow(t) ==
    /\ pc[t] = "perform_request"
    /\ \E ans \in Answers :
        /\ reqs' = [reqs EXCEPT ![t][Len(reqs[t])] =
                        Answered(@, clock, ans.ok, ans.body)]
        /\ results' = [results EXCEPT ![t] = AppendResult(@, Decode(ans.body))]
        /\ idx' = [idx EXCEPT ![t] = @ + 1]
        /\ pc' = [pc EXCEPT ![t] = "perform_loop"]
        /\ UNCHANGED outcome
    /\ UNCHANGED <<lifecycleVars, clock, op, popen, deadline, last_error, cause,
                   timer, handle, waited, spawned, signalled, entry, prev, actions,
                   factory_calls, extVars>>

\* line 162: the request of the current action is answered; its result is
\* appended, or the exception leaves perform_actions
PerformResponse(t) ==
    /\ pc[t] = "perform_request"
    /\ \E ans \in Answers :
        /\ reqs' = [reqs EXCEPT ![t][Len(reqs[t])] =
                        Answered(@, clock, ans.ok, ans.body)]
        /\ IF AnswerError(ans) # ""
           THEN /\ outcome' = [outcome EXCEPT ![t] = AnswerError(ans)]
                /\ pc' = [pc EXCEPT ![t] = "idle"]
                /\ UNCHANGED <<results, idx>>
           ELSE /\ results' = [results EXCEPT ![t] =
                                  AppendResult(@, Decode(ans.body))]
                /\ idx' = [idx EXCEPT ![t] = @ + 1]
                /\ pc' = [pc EXCEPT ![t] = "perform_loop"]
                /\ UNCHANGED outcome
    /\ UNCHANGED <<lifecycleVars, clock, op, popen, deadline, last_error, cause,
                   timer, handle, waited, spawned, signalled, entry, prev, actions,
                   factory_calls, extVars>>

\* the dispatch specification: one caller of execute_action and perform_actions
DispatchNext ==
    \E t \in SeqThreads :
        \/ ExecuteCall(t)
        \/ ExecuteStep(t)
        \/ ExecuteResponse(t)
        \/ PerformCall(t)
        \/ PerformLoop(t)
        \/ PerformResponse(t)

DispatchSpec == Init /\ [][DispatchNext]_vars

\* fairness: a caller in a call takes its next step, and the clock advances
FairSpec ==
    /\ Spec
    /\ WF_vars(\E t \in SeqThreads : Step(t))
    /\ WF_vars(Tick)

----------------------------------------------------------------------------
(* Observations used by the properties *)

\* caller t's last call was method name and has returned without raising
Returned(t, name) == pc[t] = "idle" /\ op[t] = name /\ outcome[t] = "ok"

\* caller t's last call was method name and has raised exc
Raised(t, name, exc) == pc[t] = "idle" /\ op[t] = name /\ outcome[t] = exc

\* a listTabs request has succeeded since the held process was spawned
Ready == process # 0 /\ process \in listed

\* caller t's call has changed nothing: no spawn, no request, no signal, no wait
NoEffect(t) ==
    /\ spawned[t] = <<>>
    /\ reqs[t] = <<>>
    /\ signalled[t] = <<>>
    /\ waited[t] = 0
    /\ process = entry[t].handle

----------------------------------------------------------------------------
(* Process lifecycle *)

\* C1 (as claimed): whenever launch_browser has returned without raising, a
\* listTabs request has succeeded since the held process was spawned.
C1_LaunchReturnsReady ==
    \A t \in SeqThreads : Returned(t, "launch") => Ready

\* C2: a launch_browser call that finds the held process running spawns
\* nothing, issues no request, leaves self._process as it was and returns.
C2_LaunchWhileRunningIsNoop ==
    \A t \in SeqThreads :
        (op[t] = "launch" /\ entry[t].running) =>
            /\ NoEffect(t)
            /\ Returned(t, "launch")

\* C2 witness: launch_browser was called on a running process and returned
C2_Witness ==
    /\ Returned(1, "launch")
    /\ entry[1].running
    /\ is_browser_running
    /\ prev[1] = "launch"

\* C3: when launch_browser raises TimeoutError, no signal has been sent to the
\* process it spawned and self._process is still that process, so that
\* is_browser_running() is true exactly while the process lives.
C3_TimeoutLeavesProcessHeld ==
    \A t \in SeqThreads :
        (op[t] = "launch" /\ outcome[t] = "TimeoutError") =>
            /\ pc[t] = "idle"
            /\ Len(spawned[t]) = 1
            /\ signalled[t] = <<>>
            /\ procs[spawned[t][1]].signals = 0
            /\ process = spawned[t][1]
            /\ is_browser_running = procs[spawned[t][1]].alive

\* C3 witness: a launch timed out after a failed attempt, the process lives on
C3_Witness ==
    /\ Raised(1, "launch", "TimeoutError")
    /\ Len(reqs[1]) >= 1
    /\ is_browser_running

\* C4: terminate_browser without a held handle does nothing and returns, and a
\* terminate_browser right after a terminate_browser finds no handle: it sends
\* no signal and leaves no handle held.
C4_TerminateIdempotent ==
    \A t \in SeqThreads :
        /\ (op[t] = "terminate" /\ entry[t].handle = 0) =>
               (NoEffect(t) /\ Returned(t, "terminate") /\ process = 0)
        /\ (op[t] = "terminate" /\ prev[t] = "terminate") =>
               (entry[t].handle = 0 /\ signalled[t] = <<>> /\ process = 0)

\* C4 witness: terminate_browser ran twice in a row after a launch, and the
\* process the first one signalled is still alive
C4_Witness ==
    /\ Returned(1, "terminate")
    /\ prev[1] = "terminate"
    /\ \E p \in Alive : procs[p].signals = 1

\* C5, the state part: a terminate_browser that found a handle sends at most
\* one signal, to the held process and only while it is running, waits no
\* longer than the grace period, and once it is over self._process is None and
\* is_browser_running() is false.
C5_State ==
    \A t \in SeqThreads :
        (op[t] = "terminate" /\ entry[t].handle # 0) =>
            /\ Len(signalled[t]) <= 1
            /\ \A i \in 1..Len(signalled[t]) :
                  signalled[t][i] = [proc |-> entry[t].handle, alive |-> TRUE]
            /\ procs[entry[t].handle].signals <= 1
            /\ waited[t] <= GracePeriod
            /\ outcome[t] \in {"none", "ok"}
            /\ pc[t] = "idle" => (outcome[t] = "ok" /\ process = 0 /\ ~is_browser_running)

\* C5, the step part: the end of the wait (process exited or grace period
\* over) kills nothing: every process that was alive still is.
C5_NoKill ==
    \A t \in SeqThreads :
        (pc[t] = "wait" /\ pc'[t] = "clear") => (Alive' = Alive)

\* C5: terminate_browser on a held handle is best-effort: at most one signal,
\* at most the grace period of waiting, no force-kill, and the handle is
\* cleared in every case.
C5_TerminateBestEffort == []C5_State /\ [][C5_NoKill]_vars

\* C5 witness: terminate_browser gave up after the whole grace period; the
\* process is still alive and is_browser_running() is false
C5_Witness ==
    /\ Returned(1, "terminate")
    /\ entry[1].handle # 0
    /\ waited[1] = GracePeriod
    /\ procs[entry[1].handle].alive
    /\ procs[entry[1].handle].signals = 1
    /\ ~is_browser_running

\* C6 (as claimed): at most one process spawned by the controller is alive.
C6_AtMostOneAlive == Cardinality(Alive) <= 1

----------------------------------------------------------------------------
(* Readiness polling *)

\* caller t's call has entered _wait_until_ready
Polling(t) == op[t] = "launch" /\ pc[t] \in {"loop", "request", "sleep"}

\* caller t's call went through _wait_until_ready and is over
Polled(t) ==
    /\ op[t] = "launch"
    /\ pc[t] = "idle"
    /\ spawned[t] # <<>>
    /\ outcome[t] \in {"ok", "TimeoutError"}

\* every listTabs attempt of caller t's call has failed
AllFailed(t) == \A i \in 1..Len(reqs[t]) : reqs[t][i].done /\ ~reqs[t][i].ok

\* C7: no listTabs attempt follows a successful one; the poller returns at the
\* attempt that succeeds, and it raises TimeoutError exactly when every attempt
\* has failed and the clock has reached the deadline.
C7_ReturnsAtFirstSuccess ==
    \A t \in SeqThreads :
        op[t] = "launch" =>
            /\ \A i \in 1..Len(reqs[t]) :
                  (reqs[t][i].done /\ reqs[t][i].ok) =>
                      (i = Len(reqs[t]) /\ Returned(t, "launch"))
            /\ (Polled(t) /\ outcome[t] = "ok") =>
                  (reqs[t] # <<>> /\ reqs[t][Len(reqs[t])].ok)
            /\ (Polled(t) /\ AllFailed(t)) =>
                  (outcome[t] = "TimeoutError" /\ clock >= deadline[t])
            /\ outcome[t] = "TimeoutError" =>
                  (AllFailed(t) /\ clock >= deadline[t])

\* C7 witness: the poller returned at its second attempt
C7_Witness ==
    /\ Returned(1, "launch")
    /\ Len(reqs[1]) = 2
    /\ ~reqs[1][1].ok
    /\ reqs[1][2].ok

\* C7 second case, reached as well: every attempt failed until the deadline
C7_TimeoutReached ==
    /\ Raised(1, "launch", "TimeoutError")
    /\ Len(reqs[1]) >= 2
    /\ AllFailed(1)

\* C8, the state part: every listTabs attempt starts before the deadline, an
\* attempt takes at most the request timeout, the next attempt starts exactly
\* one sleep interval after the failure before it, and the poller is over no
\* later than one request and one sleep after the last tick before the deadline.
C8_State ==
    \A t \in SeqThreads :
        op[t] = "launch" =>
            /\ \A i \in 1..Len(reqs[t]) :
                  /\ reqs[t][i].at < deadline[t]
                  /\ reqs[t][i].done => reqs[t][i].end - reqs[t][i].at <= RequestTimeout
                  /\ i > 1 => reqs[t][i].at - reqs[t][i - 1].end = SleepInterval
            /\ Polling(t) =>
                  clock <= deadline[t] - 1 + RequestTimeout + SleepInterval

\* C8, termination: a poller that has started comes to an end
C8_Terminates ==
    \A t \in SeqThreads : Polling(t) ~> (pc[t] = "idle")

\* C8: readiness polling has bounded duration: it terminates, starts no attempt
\* at or after the deadline, and sleeps one fixed interval between attempts.
C8_BoundedPolling == []C8_State /\ C8_Terminates

\* C8 witness: three attempts, each after one sleep, and the poller is over
C8_Witness ==
    /\ Raised(1, "launch", "TimeoutError")
    /\ Len(reqs[1]) = 3
    /\ reqs[1][3].at = 2

----------------------------------------------------------------------------
(* Action dispatch *)

\* the field an action of the given type must carry
RequiredField(type) == IF type = "open_url" THEN "url" ELSE "target_id"

\* the action's tag is none of the three, or its required field is missing or
\* empty
Malformed(action) ==
    \/ ~Has(action, "type")
    \/ action["type"] \notin {"open_url", "activate", "close"}
    \/ ~Has(action, RequiredField(action["type"]))
    \/ action[RequiredField(action["type"])] = <<>>

\* the request a well-formed action stands for
RequestOf(action) ==
    CASE action["type"] = "open_url" ->
             [endpoint |-> "/json/new?url=", arg |-> quote_plus(action["url"])]
      [] action["type"] = "activate" ->
             [endpoint |-> "/json/activate/", arg |-> action["target_id"]]
      [] action["type"] = "close" ->
             [endpoint |-> "/json/close/", arg |-> action["target_id"]]

\* C9: execute_action on a malformed action sends no request and ends with
\* ValueError.
C9_MalformedActionSendsNothing ==
    \A t \in SeqThreads :
        (op[t] = "execute" /\ Malformed(actions[t][1])) =>
            /\ reqs[t] = <<>>
            /\ pc[t] \in {"execute", "idle"}
            /\ outcome[t] = IF pc[t] = "idle" THEN "ValueError" ELSE "none"

\* C9 witness: an open_url action whose url is the empty string was refused
C9_Witness ==
    /\ Raised(1, "execute", "ValueError")
    /\ actions[1][1] = Dict(<<"open_url">>, <<<<>>>>, <<<<"t">>>>)
    /\ reqs[1] = <<>>

\* C9, the other cases, reached as well: a missing field and an unknown tag
C9_OtherCasesReached ==
    /\ Raised(1, "execute", "ValueError")
    /\ actions[1][1] \in {Dict(<<"close">>, <<<<"a">>>>, <<>>),
                          Dict(<<"scroll">>, <<<<"a">>>>, <<<<"t">>>>),
                          Dict(<<>>, <<<<"a">>>>, <<<<"t">>>>)}

\* C10: perform_actions on well-formed actions sends the request of action i as
\* its i-th request, each only after the one before it was answered, and when
\* it returns, results has the length of the input and its i-th element is the
\* decoded answer to the i-th request.
C10_PerformInOrder ==
    \A t \in SeqThreads :
        (op[t] = "perform" /\ \A i \in 1..Len(actions[t]) : ~Malformed(actions[t][i])) =>
            /\ Len(reqs[t]) <= Len(actions[t])
            /\ \A i \in 1..Len(reqs[t]) :
                  /\ reqs[t][i].path = RequestOf(actions[t][i])
                  /\ i < Len(reqs[t]) => (reqs[t][i].done /\ reqs[t][i].ok)
            /\ outcome[t] \in {"none", "ok", "HTTPError", "JSONDecodeError"}
            /\ Returned(t, "perform") =>
                  /\ Len(reqs[t]) = Len(actions[t])
                  /\ Len(results[t]) = Len(actions[t])
                  /\ \A i \in 1..Len(actions[t]) :
                        /\ reqs[t][i].done
                        /\ results[t][i] = Decode(reqs[t][i].body)

\* C10 witness: three different actions were performed and answered differently
C10_Witness ==
    /\ Returned(1, "perform")
    /\ Len(actions[1]) = 3
    /\ actions[1][1]["type"] = "open_url"
    /\ actions[1][2]["type"] = "activate"
    /\ actions[1][3]["type"] = "close"
    /\ reqs[1][1].body # reqs[1][2].body
    /\ Len(results[1]) = 3

\* the request was answered with a body that is JSON
Succeeded(req) == req.done /\ req.ok /\ req.body \in {"b1", "b2"}

\* the exception a request that was answered without success raises
ErrorOf(req) == IF req.ok THEN "JSONDecodeError" ELSE "HTTPError"

\* C11: perform_actions is fail-stop. When it raises, the requests it has sent
\* are those of the actions before the failing one (all answered with success)
\* and, if the failing action was well-formed, its own failed request; the
\* exception is that action's; nothing is sent for a later action. It returns
\* only when no action has failed.
C11_PerformFailStop ==
    \A t \in SeqThreads :
        op[t] = "perform" =>
            LET n == Len(reqs[t]) IN
            /\ n <= Len(actions[t])
            /\ \A i \in 1..n :
                  /\ ~Malformed(actions[t][i])
                  /\ reqs[t][i].path = RequestOf(actions[t][i])
                  /\ i < n => Succeeded(reqs[t][i])
            /\ (n > 0 /\ reqs[t][n].done /\ ~Succeeded(reqs[t][n])) =>
                  /\ Raised(t, "perform", ErrorOf(reqs[t][n]))
                  /\ Len(results[t]) = n - 1
            /\ (n < Len(actions[t]) /\ Malformed(actions[t][n + 1])
                    /\ (n = 0 \/ Succeeded(reqs[t][n])) /\ pc[t] # "perform_loop") =>
                  /\ Raised(t, "perform", "ValueError")
                  /\ Len(results[t]) = n
            /\ outcome[t] \notin {"none", "ok"} =>
                  /\ pc[t] = "idle"
                  /\ \/ n > 0 /\ ~Succeeded(reqs[t][n])
                     \/ n < Len(actions[t]) /\ Malformed(actions[t][n + 1])
            /\ Returned(t, "perform") =>
                  /\ n = Len(actions[t])
                  /\ \A i \in 1..n : Succeeded(reqs[t][i])

\* C11 witness: the second of three actions failed after the first was done
C11_Witness ==
    /\ Raised(1, "perform", "HTTPError")
    /\ Len(actions[1]) = 3
    /\ Len(reqs[1]) = 2
    /\ Succeeded(reqs[1][1])
    /\ Len(results[1]) = 1

\* C11, the validation case, reached as well: the second action is malformed
C11_ValidationReached ==
    /\ Raised(1, "perform", "ValueError")
    /\ Len(actions[1]) = 3
    /\ Len(reqs[1]) = 1
    /\ ~Malformed(actions[1][3])

\* C12: execute_action on a well-formed action sends exactly one request, the
\* one its type stands for, and ends with that request's result or error.
C12_OneRequestPerAction ==
    \A t \in SeqThreads :
        (op[t] = "execute" /\ ~Malformed(actions[t][1])) =>
            /\ Len(reqs[t]) = IF pc[t] = "execute" THEN 0 ELSE 1
            /\ \A i \in 1..Len(reqs[t]) : reqs[t][i].path = RequestOf(actions[t][1])
            /\ pc[t] = "idle" =>
                  /\ reqs[t][1].done
                  /\ outcome[t] = IF Succeeded(reqs[t][1]) THEN "ok"
                                  ELSE ErrorOf(reqs[t][1])
                  /\ Succeeded(reqs[t][1]) => results[t] = <<Decode(reqs[t][1].body)>>

\* C12 witness: a close action was answered with a failure, after one request
C12_Witness ==
    /\ Raised(1, "execute", "HTTPError")
    /\ actions[1][1]["type"] = "close"
    /\ Len(reqs[1]) = 1
    /\ reqs[1][1].path = [endpoint |-> "/json/close/", arg |-> <<"t">>]

\* C12, the other types, reached as well
C12_OpenReached ==
    /\ Returned(1, "execute")
    /\ reqs[1][1].path = [endpoint |-> "/json/new?url=",
                          arg |-> <<"a", "%", "2", "F", "+">>]

\* C17: a launch that ends with TimeoutError carries, as its cause, the error
\* of its most recent list_tabs attempt, and so has made at least one attempt.
\* (Violated: with startup_timeout = 0 the loop body never runs.)
C17_TimeoutWrapsLastError ==
    \A t \in SeqThreads :
        Raised(t, "launch", "TimeoutError") =>
            /\ Len(reqs[t]) >= 1
            /\ cause[t] = Len(reqs[t])
            /\ reqs[t][Len(reqs[t])].done
            /\ ~Succeeded(reqs[t][Len(reqs[t])])

\* C17 for the positive timeouts: the cause is the last attempt's error
C17_PositiveTimeoutWrapsLastError ==
    \A t \in SeqThreads :
        (Raised(t, "launch", "TimeoutError") /\ startup_timeout > 0) =>
            /\ Len(reqs[t]) >= 1
            /\ cause[t] = Len(reqs[t])
            /\ reqs[t][Len(reqs[t])].done
            /\ ~Succeeded(reqs[t][Len(reqs[t])])

\* C18: a launch whose process factory raises ends at once with that error:
\* the factory was called once, no request was sent, no process was spawned or
\* signalled, and the held handle is the one held when the launch began.
C18_SpawnFailureSurfaces ==
    \A t \in SeqThreads :
        /\ Raised(t, "launch", "OSError") =>
              /\ Len(factory_calls[t]) = 1
              /\ reqs[t] = <<>>
              /\ spawned[t] = <<>>
              /\ signalled[t] = <<>>
              /\ process = entry[t].handle
        /\ (op[t] = "launch" /\ pc[t] # "idle" /\ Len(factory_calls[t]) = 1) =>
              spawned[t] # <<>>

\* C18 witness: the factory raised while the handle of a dead process was held
C18_Witness ==
    /\ Raised(1, "launch", "OSError")
    /\ entry[1].handle # 0
    /\ process = entry[1].handle
    /\ factory_calls[1] = <<LaunchArgs(DefaultOptions)>>

----------------------------------------------------------------------------
(* launch_browser's keyword arguments *)

\* the values launch_browser is called with
UserDataDirs == Optional({"", "/d"})
AdditionalArgs == Optional({<<>>, <<"--x">>, <<"--y", "--headless=new">>})
LaunchOptions ==
    [headless : BOOLEAN, user_data_dir : UserDataDirs, additional_args : AdditionalArgs]

\* line 76: launch_browser called on a new controller with any keyword arguments
LaunchWith(t) ==
    /\ Fresh(t)
    /\ \E o \in LaunchOptions : LaunchCall(t, o)

\* line 99-101 and 168-180: the steps of a launch that has begun
LaunchSteps(t) ==
    \/ Spawn(t)
    \/ Assign(t)
    \/ WaitStart(t)
    \/ LoopCheck(t)
    \/ Response(t)
    \/ SleepDone(t)

\* one launch on a new controller, with any keyword arguments
ArgsNext ==
    \/ \E t \in SeqThreads : LaunchWith(t) \/ LaunchSteps(t)
    \/ ProcExit
    \/ Tick

ArgsSpec == Init /\ [][ArgsNext]_vars

\* the flags a launch with the keyword arguments o must pass, by position
Given(o) == o.user_data_dir \notin {<<>>, <<"">>}
Extras(o) == IF o.additional_args = <<>> THEN <<>> ELSE o.additional_args[1]
FlagCount(o) == (IF o.headless THEN 1 ELSE 0) + (IF Given(o) THEN 1 ELSE 0)

\* C15: the argument list given to the process factory is the executable path,
\* the port flag, the allow-origins flag, the headless flag iff headless, the
\* user data dir flag iff a user data dir is given, then the additional
\* arguments in order; a launch calls the factory once, before it spawns.
C15_FactoryArguments ==
    \A t \in SeqThreads :
        op[t] = "launch" =>
            /\ Len(factory_calls[t]) = IF pc[t] = "spawn" THEN 0 ELSE 1
            /\ Len(spawned[t]) <= Len(factory_calls[t])
            /\ \A i \in 1..Len(factory_calls[t]) :
                  LET args == factory_calls[t][i]
                      o == options[t]
                      h == IF o.headless THEN 1 ELSE 0
                      n == 3 + FlagCount(o)
                  IN  /\ Len(args) = n + Len(Extras(o))
                      /\ args[1] = chrome_path
                      /\ args[2] = "--remote-debugging-port=" \o ToString(remote_debugging_port)
                      /\ args[3] = "--remote-allow-origins=*"
                      /\ o.headless <=> \E j \in 4..n : args[j] = "--headless=new"
                      /\ o.headless => args[4] = "--headless=new"
                      /\ Given(o) <=> \E j \in 4..n :
                                         /\ Len(args[j]) >= 16
                                         /\ SubSeq(args[j], 1, 16) = "--user-data-dir="
                      /\ Given(o) => args[4 + h] = "--user-data-dir=" \o o.user_data_dir[1]
                      /\ \A j \in 1..Len(Extras(o)) : args[n + j] = Extras(o)[j]

\* C15 witness: a launch with every keyword argument given has spawned
C15_Witness ==
    /\ op[1] = "launch"
    /\ spawned[1] # <<>>
    /\ factory_calls[1] = << <<"google-chrome", "--remote-debugging-port=9222",
                               "--remote-allow-origins=*", "--headless=new",
                               "--user-data-dir=/d", "--y", "--headless=new">> >>

\* C15, a launch with no optional flag, reached as well
C15_BareReached ==
    /\ op[1] = "launch"
    /\ options[1] = [headless |-> FALSE, user_data_dir |-> <<"">>, additional_args |-> <<<<>>>>]
    /\ factory_calls[1] = << <<"google-chrome", "--remote-debugging-port=9222",
                               "--remote-allow-origins=*">> >>

----------------------------------------------------------------------------
(* NativeBridge *)

\* the names, commands and extra arguments the bridge is called with
Names == {"ls", "rm"}
Commands == {<<"ls">>, <<"rm", "-i">>}
ExtraArgs == {"-v", "--unsafe", "--unsafe-mode", "x--unsafe"}
ExtraLists == UNION {[1..n -> ExtraArgs] : n \in 0..MaxExtra}

\* str.startswith
StartsWith(s, p) == Len(s) >= Len(p) /\ SubSeq(s, 1, Len(p)) = p

\* bridge.py line 30-31: name in self.allowlist
is_allowed(name) == name \in DOMAIN allowlist

\* bridge.py line 27-28: self.allowlist[name] = list(command)
register(name, command) ==
    /\ allowlist' = [n \in DOMAIN allowlist \cup {name} |->
                        IF n = name THEN command ELSE allowlist[n]]
    /\ UNCHANGED <<run_call, executed>>

\* a bug: only the first extra argument is tested
BlockedFirstOnly(extra, i) == i = 1 /\ StartsWith(extra[i], "--unsafe")

\* bridge.py line 40: arg.startswith("--unsafe")
Blocked(extra, i) == StartsWith(extra[i], "--unsafe")

\* bridge.py line 39-42: the loop over the extra arguments from position i on,
\* with the list args built so far; it ends blocked or with the whole list
RECURSIVE ExtendArgs(_, _, _)
ExtendArgs(args, extra, i) ==
    IF i > Len(extra) THEN [blocked |-> FALSE, args |-> args]
    ELSE IF Blocked(extra, i) THEN [blocked |-> TRUE, args |-> args]
    ELSE ExtendArgs(Append(args, extra[i]), extra, i + 1)

\* a bug: args is the allowlist's own list, so appending changes the allowlist
AllowlistAliased(name, args) == [allowlist EXCEPT ![name] = args]

\* bridge.py line 37: args = list(base_cmd) is a copy, the allowlist keeps its list
AllowlistAfter(name, args) == allowlist

\* bridge.py line 33-43: run(name, extra_args); subprocess.run returns or, with
\* check=True, raises CalledProcessError
run(name, extra_args) ==
    IF ~is_allowed(name)
    THEN /\ run_call' = [name |-> name, extra_args |-> extra_args,
                         before |-> allowlist, after |-> allowlist,
                         outcome |-> "SecurityError"]
         /\ executed' = <<>>
         /\ UNCHANGED allowlist
    ELSE LET r == IF TruthyList(extra_args)
                  THEN ExtendArgs(allowlist[name], extra_args[1], 1)
                  ELSE [blocked |-> FALSE, args |-> allowlist[name]]
         IN  /\ allowlist' = AllowlistAfter(name, r.args)
             /\ IF r.blocked
                THEN /\ run_call' = [name |-> name, extra_args |-> extra_args,
                                     before |-> allowlist, after |-> allowlist',
                                     outcome |-> "SecurityError"]
                     /\ executed' = <<>>
                ELSE /\ \E status \in {"ok", "CalledProcessError"} :
                            run_call' = [name |-> name, extra_args |-> extra_args,
                                         before |-> allowlist, after |-> allowlist',
                                         outcome |-> status]
                     /\ executed' = <<r.args>>

\* a call of register
Register ==
    /\ \E name \in Names, command \in Commands : register(name, command)
    /\ UNCHANGED <<procs, process, startup_timeout, clock, pc, op, outcome, popen,
                   deadline, last_error, cause, timer, handle, waited, reqs, spawned,
                   signalled, entry, prev, listed, dispatchVars, options,
                   factory_calls, stream, cli>>

\* a call of run
Run ==
    /\ \E name \in Names, extra_args \in Optional(ExtraLists) : run(name, extra_args)
    /\ UNCHANGED <<procs, process, startup_timeout, clock, pc, op, outcome, popen,
                   deadline, last_error, cause, timer, handle, waited, reqs, spawned,
                   signalled, entry, prev, listed, dispatchVars, options,
                   factory_calls, stream, cli>>

BridgeNext == Register \/ Run

BridgeSpec == Init /\ [][BridgeNext]_vars

\* the latest run had to be denied: its name was not registered, or one of its
\* extra arguments starts with --unsafe
Denied ==
    \/ run_call.name \notin DOMAIN run_call.before
    \/ /\ run_call.extra_args # <<>>
       /\ \E i \in 1..Len(run_call.extra_args[1]) :
             LET arg == run_call.extra_args[1][i]
             IN  Len(arg) >= 8 /\ SubSeq(arg, 1, 8) = "--unsafe"

\* C16: a run whose name is not registered, or one of whose extra arguments
\* starts with --unsafe, raises SecurityError and starts no subprocess; no
\* run changes the allowlist; a run that is not denied starts the registered
\* command followed by the extra arguments.
C16_RunIsAGate ==
    run_call.outcome # "none" =>
        /\ run_call.after = run_call.before
        /\ Denied => run_call.outcome = "SecurityError" /\ executed = <<>>
        /\ ~Denied =>
              /\ run_call.outcome \in {"ok", "CalledProcessError"}
              /\ executed = <<run_call.before[run_call.name]
                               \o (IF run_call.extra_args = <<>> THEN <<>>
                                   ELSE run_call.extra_args[1])>>

\* C16 witness: a registered command was denied for its second extra argument
C16_Witness ==
    /\ run_call.outcome = "SecurityError"
    /\ run_call.name \in DOMAIN run_call.before
    /\ run_call.extra_args = << <<"-v", "--unsafe-mode">> >>
    /\ executed = <<>>
    /\ allowlist = run_call.before

\* C16, the unregistered name and an allowed run, reached as well
C16_UnregisteredReached ==
    /\ run_call.outcome = "SecurityError"
    /\ run_call.name \notin DOMAIN run_call.before
    /\ DOMAIN allowlist # {}

C16_AllowedReached ==
    /\ run_call.outcome = "ok"
    /\ executed = << <<"rm", "-i", "x--unsafe", "-v">> >>

----------------------------------------------------------------------------
(* ActionExecutor.stream_execution *)

\* action_executor.py line 28-39: RuleBasedPlanner.plan returns one open_url
\* action whose url is not empty
RuleBasedPlans == {<<Dict(<<"open_url">>, <<u>>, <<>>)>> : u \in Urls \ {<<>>}}

\* action_executor.py line 55: stream_execution(request, dry_run) is called;
\* it returns a generator and runs nothing yet
StreamCall(t, dry_run) ==
    /\ pc[t] = "idle"
    /\ BeginCall(t, "stream")
    /\ stream' = [asked |-> 0, dry_run |-> dry_run]
    /\ actions' = [actions EXCEPT ![t] = <<>>]
    /\ idx' = [idx EXCEPT ![t] = 1]
    /\ results' = [results EXCEPT ![t] = <<>>]
    /\ outcome' = [outcome EXCEPT ![t] = "none"]
    /\ UNCHANGED <<lifecycleVars, pc, options, allowlist, run_call, executed, cli>>

\* the consumer asks the generator for its next result; the first time, line 56
\* makes the plan (one of Plans). Line 58-62: the loop is over (StopIteration),
\* or a dry run yields the action, or execute_action refuses the action or
\* sends its request
StreamAsk(t, Plans) ==
    /\ pc[t] = "idle"
    /\ op[t] = "stream"
    /\ outcome[t] = "none"
    /\ stream' = [stream EXCEPT !.asked = @ + 1]
    /\ \E plan \in IF stream.asked = 0 THEN Plans ELSE {actions[t]} :
        /\ actions' = [actions EXCEPT ![t] = plan]
        /\ IF idx[t] > Len(plan)
           THEN /\ outcome' = [outcome EXCEPT ![t] = "ok"]
                /\ UNCHANGED <<pc, reqs, results, idx>>
           ELSE IF stream.dry_run
           THEN /\ results' = [results EXCEPT ![t] = Append(@, plan[idx[t]])]
                /\ idx' = [idx EXCEPT ![t] = @ + 1]
                /\ UNCHANGED <<pc, reqs, outcome>>
           ELSE LET step == execute_action(plan[idx[t]]) IN
                IF step.raise # ""
                THEN /\ outcome' = [outcome EXCEPT ![t] = step.raise]
                     /\ UNCHANGED <<pc, reqs, results, idx>>
                ELSE /\ reqs' = [reqs EXCEPT ![t] = Append(@, Request(step.path, clock))]
                     /\ pc' = [pc EXCEPT ![t] = "stream_request"]
                     /\ UNCHANGED <<outcome, results, idx>>
    /\ UNCHANGED <<lifecycleVars, clock, op, popen, deadline, last_error, cause,
                   timer, handle, waited, spawned, signalled, entry, prev,
                   factory_calls, options, allowlist, run_call, executed, cli>>

\* a bug: after a result the generator goes on to the next action by itself
\* instead of yielding
StreamResponseEager(t) ==
    /\ pc[t] = "stream_request"
    /\ \E ans \in Answers :
        LET answered == [reqs[t] EXCEPT ![Len(reqs[t])] =
                            Answered(@, clock, ans.ok, ans.body)]
            more == /\ idx[t] < Len(actions[t])
                    /\ execute_action(actions[t][idx[t] + 1]).raise = ""
        IN  IF AnswerError(ans) # ""
            THEN /\ reqs' = [reqs EXCEPT ![t] = answered]
                 /\ outcome' = [outcome EXCEPT ![t] = AnswerError(ans)]
                 /\ pc' = [pc EXCEPT ![t] = "idle"]
                 /\ UNCHANGED <<results, idx>>
            ELSE /\ results' = [results EXCEPT ![t] = Append(@, Decode(ans.body))]
                 /\ idx' = [idx EXCEPT ![t] = @ + 1]
                 /\ reqs' = [reqs EXCEPT ![t] =
                                IF more
                                THEN Append(answered, Request(
                                         execute_action(actions[t][idx[t] + 1]).path, clock))
                                ELSE answered]
                 /\ pc' = [pc EXCEPT ![t] = IF more THEN "stream_request" ELSE "idle"]
                 /\ UNCHANGED outcome
    /\ UNCHANGED <<lifecycleVars, clock, op, popen, deadline, last_error, cause,
                   timer, handle, waited, spawned, signalled, entry, prev, actions,
                   factory_calls, extVars>>

\* action_executor.py line 62: the request is answered; the decoded body is
\* yielded to the consumer, or the exception leaves the generator
StreamResponse(t) ==
    /\ pc[t] = "stream_request"
    /\ \E ans \in Answers :
        /\ reqs' = [reqs EXCEPT ![t][Len(reqs[t])] =
                        Answered(@, clock, ans.ok, ans.body)]
        /\ IF AnswerError(ans) # ""
           THEN /\ outcome' = [outcome EXCEPT ![t] = AnswerError(ans)]
                /\ UNCHANGED <<results, idx>>
           ELSE /\ results' = [results EXCEPT ![t] = Append(@, Decode(ans.body))]
                /\ idx' = [idx EXCEPT ![t] = @ + 1]
                /\ UNCHANGED outcome
    /\ pc' = [pc EXCEPT ![t] = "idle"]
    /\ UNCHANGED <<lifecycleVars, clock, op, popen, deadline, last_error, cause,
                   timer, handle, waited, spawned, signalled, entry, prev, actions,
                   factory_calls, extVars>>

\* one stream_execution on a new controller, with any planner
StreamNext ==
    \E t \in SeqThreads :
        \/ Fresh(t) /\ \E dry_run \in BOOLEAN : StreamCall(t, dry_run)
        \/ StreamAsk(t, ActionLists)
        \/ StreamResponse(t)

StreamSpec == Init /\ [][StreamNext]_vars

\* C19: in a stream_execution that is not a dry run, a request is sent only
\* for the result the consumer has asked for: after k asks there are at most k
\* requests, the k-th for the k-th action. When the i-th action fails, the
\* consumer has received the results of the i - 1 actions before it, in order,
\* and nothing is sent for a later action.
C19_StreamIsLazy ==
    \A t \in SeqThreads :
        (op[t] = "stream" /\ ~stream.dry_run) =>
            LET n == Len(reqs[t])
                k == stream.asked
            IN  /\ n <= k
                /\ k > 0 => n <= Len(actions[t])
                /\ \A j \in 1..n : reqs[t][j].path = RequestOf(actions[t][j])
                /\ Len(results[t]) <= n
                /\ \A j \in 1..Len(results[t]) :
                      /\ Succeeded(reqs[t][j])
                      /\ results[t][j] = Decode(reqs[t][j].body)
                /\ pc[t] = "stream_request" => n = k /\ Len(results[t]) = k - 1
                /\ (pc[t] = "idle" /\ outcome[t] = "none") =>
                      n = k /\ Len(results[t]) = k
                /\ outcome[t] \notin {"none", "ok"} =>
                      /\ Len(results[t]) = k - 1
                      /\ \/ n = k /\ ~Succeeded(reqs[t][k])
                         \/ n = k - 1 /\ Malformed(actions[t][k])
                /\ outcome[t] = "ok" =>
                      n = Len(actions[t]) /\ Len(results[t]) = n /\ k = n + 1

\* C19 witness: the second of three actions failed when the consumer asked for
\* the second result, having received the first
C19_Witness ==
    /\ op[1] = "stream"
    /\ ~stream.dry_run
    /\ outcome[1] = "HTTPError"
    /\ Len(actions[1]) = 3
    /\ stream.asked = 2
    /\ Len(reqs[1]) = 2
    /\ results[1] = <<Decode(reqs[1][1].body)>>

\* C19, a consumer that has taken two results of three and not asked again
C19_SuspendedReached ==
    /\ op[1] = "stream"
    /\ ~stream.dry_run
    /\ outcome[1] = "none"
    /\ pc[1] = "idle"
    /\ Len(actions[1]) = 3
    /\ stream.asked = 2
    /\ Len(reqs[1]) = 2

\* a dry run sends no request
C19_DryRunReached ==
    /\ op[1] = "stream"
    /\ stream.dry_run
    /\ outcome[1] = "ok"
    /\ Len(results[1]) = 3
    /\ reqs[1] = <<>>

----------------------------------------------------------------------------
(* Two callers of one controller.  The controller has no lock: the calls    *)
(* interleave at every read and write of self._process.                     *)

\* line 108-110: the steps of a terminate_browser that has begun
TerminateSteps(t) ==
    \/ Signal(t)
    \/ WaitBegin(t)
    \/ WaitDone(t)
    \/ Clear(t)

\* the first caller calls launch_browser on a new controller
FirstCall == Fresh(1) /\ LaunchBegin(1)

\* the second caller calls launch_browser or terminate_browser while the first
\* caller's launch is spawning or polling
SecondCall ==
    /\ Fresh(2)
    /\ op[1] = "launch"
    /\ pc[1] # "idle"
    /\ \/ LaunchNoop(2)
       \/ LaunchBegin(2)
       \/ TerminateNoop(2)
       \/ TerminateBegin(2)

ConcNext ==
    \/ FirstCall
    \/ SecondCall
    \/ \E t \in Threads : LaunchSteps(t) \/ TerminateSteps(t)
    \/ ProcExit
    \/ Tick

ConcSpec == Init /\ [][ConcNext]_vars

\* the scheduler lets every caller that can take a step take it, and time pass
ConcFairSpec ==
    /\ ConcSpec
    /\ \A t \in Threads : WF_vars(LaunchSteps(t) \/ TerminateSteps(t))
    /\ WF_vars(Tick)

\* C13: when a second launch_browser starts while the first is spawning or
\* polling, the two together spawn at most one process and install at most
\* one handle.  (Violated: both callers pass the test of line 84 and spawn.)
C13_AtMostOneLaunch ==
    (op[1] = "launch" /\ op[2] = "launch") =>
        /\ Len(spawned[1]) + Len(spawned[2]) <= 1
        /\ process # 0 => process = (spawned[1] \o spawned[2])[1]

\* C14: when terminate_browser is called while a launch_browser is still
\* running, terminate waits at most its grace period and the launch is over
\* no later than its deadline.  (Violated: an attempt begun before the
\* deadline is waited for, and then a sleep, before the deadline is tested.)
C14_TerminateDuringLaunch ==
    (op[1] = "launch" /\ op[2] = "terminate") =>
        /\ waited[2] <= GracePeriod
        /\ pc[2] = "wait" => clock - timer[2] <= GracePeriod
        /\ Polling(1) => clock <= deadline[1]

\* C14, what does hold: terminate waits at most its grace period, and the
\* launch is over at most one request and one sleep after the last tick
\* before its deadline
C14_Bounded ==
    (op[1] = "launch" /\ op[2] = "terminate") =>
        /\ waited[2] <= GracePeriod
        /\ pc[2] = "wait" => clock - timer[2] <= GracePeriod
        /\ Polling(1) =>
              clock <= IF startup_timeout = 0 THEN deadline[1]
                       ELSE deadline[1] - 1 + RequestTimeout + SleepInterval

\* C14, no deadlock: both calls come to an end
C14_BothEnd == \A t \in Threads : (pc[t] # "idle") ~> (pc[t] = "idle")

----------------------------------------------------------------------------
(* cli.main *)

\* what a step of main itself leaves alone
controllerVars ==
    <<procs, process, startup_timeout, clock, pc, op, outcome, popen, deadline,
      last_error, cause, timer, handle, waited, reqs, spawned, signalled, entry,
      prev, listed, dispatchVars, options, factory_calls, allowlist, run_call,
      executed, stream>>

\* cli.py line 40-52: the arguments are parsed. The plan command prints the
\* plan and returns 0 (line 43-48); the run command builds the controller and
\* goes on to line 53
Parse ==
    /\ cli.pc = "off"
    /\ \E command \in {"plan", "run"}, no_launch, headless, dry_run \in BOOLEAN :
          cli' = [pc |-> IF command = "plan" THEN "exit"
                         ELSE IF no_launch THEN "stream" ELSE "launch",
                  command |-> command, no_launch |-> no_launch,
                  headless |-> headless, dry_run |-> dry_run, error |-> ""]
    /\ UNCHANGED controllerVars

\* cli.py line 54: controller.launch_browser(headless=args.headless)
CliLaunch ==
    /\ cli.pc = "launch"
    /\ op[1] = "none"
    /\ LaunchCall(1, [DefaultOptions EXCEPT !.headless = cli.headless])

\* cli.py line 54-55: launch_browser is called before the try statement, so
\* its exception leaves main at once
AfterLaunch(result) == IF result = "ok" THEN "stream" ELSE "raised"

\* cli.py line 54: launch_browser has returned or raised
Launched ==
    /\ cli.pc = "launch"
    /\ op[1] = "launch"
    /\ pc[1] = "idle"
    /\ cli' = [cli EXCEPT !.pc = AfterLaunch(outcome[1]),
                          !.error = IF outcome[1] = "ok" THEN "" ELSE outcome[1]]
    /\ UNCHANGED controllerVars

\* cli.py line 56: executor.stream_execution(args.request, dry_run=args.dry_run)
CliStream ==
    /\ cli.pc = "stream"
    /\ op[1] # "stream"
    /\ StreamCall(1, cli.dry_run)

\* cli.py line 57, 31-36: _print_iterable asks for every result
CliPrint ==
    /\ cli.pc = "stream"
    /\ StreamAsk(1, RuleBasedPlans)

\* cli.py line 57-58: the results are exhausted, or an action has raised; the
\* finally clause is entered
Streamed ==
    /\ cli.pc = "stream"
    /\ op[1] = "stream"
    /\ pc[1] = "idle"
    /\ outcome[1] # "none"
    /\ cli' = [cli EXCEPT !.pc = "finally",
                          !.error = IF outcome[1] = "ok" THEN "" ELSE outcome[1]]
    /\ UNCHANGED controllerVars

\* cli.py line 61, or the pending exception leaves main
AfterFinally == IF cli.error = "" THEN "exit" ELSE "raised"

\* cli.py line 59: if not args.no_launch and controller.is_browser_running()
Finally ==
    /\ cli.pc = "finally"
    /\ cli' = [cli EXCEPT !.pc = IF ~cli.no_launch /\ is_browser_running
                                 THEN "terminate" ELSE AfterFinally]
    /\ UNCHANGED controllerVars

\* cli.py line 60: controller.terminate_browser()
CliTerminate ==
    /\ cli.pc = "terminate"
    /\ op[1] # "terminate"
    /\ TerminateBegin(1)

\* cli.py line 60-61: terminate_browser has returned
Terminated ==
    /\ cli.pc = "terminate"
    /\ op[1] = "terminate"
    /\ pc[1] = "idle"
    /\ cli' = [cli EXCEPT !.pc = AfterFinally]
    /\ UNCHANGED controllerVars

CliNext ==
    \/ Parse
    \/ CliLaunch
    \/ LaunchSteps(1)
    \/ Launched
    \/ CliStream
    \/ CliPrint
    \/ StreamResponse(1)
    \/ Streamed
    \/ Finally
    \/ CliTerminate
    \/ TerminateSteps(1)
    \/ Terminated
    \/ ProcExit
    \/ Tick

\* main builds its controller with the default startup_timeout (line 51, 61)
CliInit == Init /\ startup_timeout = MaxTimeout

CliSpec == CliInit /\ [][CliNext]_vars

\* main is over: it has returned or an exception has left it
Exited == cli.pc \in {"exit", "raised"}

\* C20: when the run command without --no-launch is over, every process it
\* spawned that has not exited by itself has been sent the termination signal.
\* (Violated: a launch that times out leaves main before the try statement.)
C20_SpawnedAreTerminated ==
    (Exited /\ cli.command = "run" /\ ~cli.no_launch) =>
        \A p \in 1..Len(procs) : procs[p].signals >= 1 \/ ~procs[p].alive

\* C20, what does hold: once launch_browser has returned, the process is sent
\* the signal before main is over, whether the actions succeed or fail
C20_TerminatedOnceLaunched ==
    (Exited /\ cli.command = "run" /\ ~cli.no_launch /\ op[1] # "launch") =>
        \A p \in 1..Len(procs) : procs[p].signals >= 1 \/ ~procs[p].alive

\* C20, the case of a failed action, reached
C20_FailedActionReached ==
    /\ cli.pc = "raised"
    /\ cli.error = "HTTPError"
    /\ Len(procs) = 1
    /\ procs[1].alive
    /\ procs[1].signals = 1

====
